---- MODULE Spec2Model ----
(***************************************************************************)
(* Model of discord_slash/cog_ext.py: the two decorator factories          *)
(* cog_slash and cog_subcommand, the closures they return (wrapper) and    *)
(* the descriptors the wrappers build when applied to a coroutine.         *)
(*                                                                         *)
(* Python values are tagged records, so that None, "", [] and {} stay      *)
(* distinct and Python truthiness can be computed:                         *)
(*   None            [tag |-> "None"]                                      *)
(*   str             [tag |-> "str",  val |-> sequence of characters]      *)
(*   list            [tag |-> "list", val |-> sequence of elements]        *)
(*   dict            [tag |-> "dict", val |-> set of <<key, value>>]       *)
(***************************************************************************)
EXTENDS Integers, Sequences, FiniteSets, TLC

VARIABLES
    args,       \* the keyword arguments the factory was called with (as given)
    closure,    \* the free variables of the returned wrapper (its closure cells)
    results     \* one entry per application of the wrapper, in order

vars == <<args, closure, results>>

\* Number of times the returned wrapper is applied to a function.
MaxApps == 2

-----------------------------------------------------------------------------
(* Python values *)

None == [tag |-> "None"]
Str(s) == [tag |-> "str", val |-> s]
List(s) == [tag |-> "list", val |-> s]
Dict(s) == [tag |-> "dict", val |-> s]

\* bool(v) for the values above: None, "", [] and {} are false.
Truthy(v) ==
    CASE v.tag = "None" -> FALSE
      [] v.tag = "str"  -> v.val /= <<>>
      [] v.tag = "list" -> v.val /= <<>>
      [] v.tag = "dict" -> v.val /= {}

\* Python's `a or b`: a when a is true, otherwise b (whatever b is).
PyOr(a, b) == IF Truthy(a) THEN a ELSE b

\* The two placeholder literals of the source; they differ in case and
\* in the final full stop.
NoDescription ==
    Str(<<"N","o"," ","d","e","s","c","r","i","p","t","i","o","n">>)
NoDescriptionDot ==
    Str(<<"N","o"," ","D","e","s","c","r","i","p","t","i","o","n",".">>)

-----------------------------------------------------------------------------
(* inspect.getdoc / inspect.cleandoc, as the standard library computes them *)

IsBlankChar(c) == c = " "

RECURSIVE lstrip(_)
lstrip(s) ==
    IF s /= <<>> /\ IsBlankChar(Head(s)) THEN lstrip(Tail(s)) ELSE s

\* str.split("\n"): always at least one line.
RECURSIVE split(_, _)
split(s, cur) ==
    IF s = <<>> THEN <<cur>>
    ELSE IF Head(s) = "\n" THEN <<cur>> \o split(Tail(s), <<>>)
    ELSE split(Tail(s), Append(cur, Head(s)))

RECURSIVE join(_)
join(lines) ==
    IF lines = <<>> THEN <<>>
    ELSE IF Len(lines) = 1 THEN lines[1]
    ELSE lines[1] \o <<"\n">> \o join(Tail(lines))

Drop(s, n) == IF n >= Len(s) THEN <<>> ELSE SubSeq(s, n + 1, Len(s))

RECURSIVE popBack(_)
popBack(lines) ==
    IF lines /= <<>> /\ lines[Len(lines)] = <<>>
    THEN popBack(SubSeq(lines, 1, Len(lines) - 1)) ELSE lines

RECURSIVE popFront(_)
popFront(lines) ==
    IF lines /= <<>> /\ Head(lines) = <<>> THEN popFront(Tail(lines)) ELSE lines

cleandoc(doc) ==
    LET lines == split(doc, <<>>)
        \* indentation of the non-blank lines after the first
        indents == { Len(lines[i]) - Len(lstrip(lines[i])) :
                        i \in { j \in 2..Len(lines) : lstrip(lines[j]) /= <<>> } }
        hasMargin == indents /= {}
        margin == CHOOSE m \in indents : \A n \in indents : m <= n
        stripped == [ i \in 1..Len(lines) |->
                        IF i = 1 THEN lstrip(lines[1])
                        ELSE IF hasMargin THEN Drop(lines[i], margin)
                        ELSE lines[i] ]
    IN  join(popFront(popBack(stripped)))

\* inspect.getdoc(cmd): None without a docstring, else the cleaned docstring.
\* (A docstring inherited from a base class is not found while the class
\* body that holds the decorated coroutine is still being executed.)
\* Tabs are outside the alphabet of the docstrings used here.
getdoc(cmd) ==
    IF cmd.doc.tag = "None" THEN None ELSE Str(cleandoc(cmd.doc.val))

-----------------------------------------------------------------------------
(* manage_commands helpers (utils/manage_commands.py) *)

\* generate_options(function, description): one option per command
\* parameter of the coroutine (cmd.params lists them, self and ctx left out),
\* each carrying the description it was given.
generate_options(cmd, description) ==
    List([ i \in 1..Len(cmd.params) |->
            [name |-> cmd.params[i], description |-> description,
             type |-> "STRING", required |-> TRUE] ])

\* generate_auto_convert(options): option name -> option type.
generate_auto_convert(options) ==
    Dict({ <<options.val[i].name, options.val[i].type>> : i \in 1..Len(options.val) })

-----------------------------------------------------------------------------
(* The body shared, line for line, by both wrappers *)

\* desc with the docstring fallback left out.
desc_no_docstring(description, cmd) ==
    PyOr(description, NoDescription)

\* desc = description or inspect.getdoc(cmd) or "No description"
desc(description, cmd) ==
    PyOr(PyOr(description, getdoc(cmd)), NoDescription)

\* opts testing `if not options` instead of `if options is None`.
opts_if_not_options(options, cmd, d) ==
    IF ~Truthy(options)
    THEN [val   |-> generate_options(cmd, d),
          calls |-> << [fn |-> "generate_options", args |-> <<cmd, d>>,
                        ret |-> generate_options(cmd, d)] >>]
    ELSE [val |-> options, calls |-> <<>>]

\* if options is None: opts = generate_options(cmd, desc) else: opts = options
\* Gives the option list and the helper calls made to get it.
opts(options, cmd, d) ==
    IF options.tag = "None"
    THEN [val   |-> generate_options(cmd, d),
          calls |-> << [fn |-> "generate_options", args |-> <<cmd, d>>,
                        ret |-> generate_options(cmd, d)] >>]
    ELSE [val |-> options, calls |-> <<>>]

\* auto_conv letting a supplied dictionary win over the generated map.
auto_conv_supplied_first(o, auto_convert) ==
    IF Truthy(o) /\ ~Truthy(auto_convert)
    THEN [val   |-> generate_auto_convert(o),
          calls |-> << [fn |-> "generate_auto_convert", args |-> <<o>>,
                        ret |-> generate_auto_convert(o)] >>]
    ELSE [val |-> auto_convert, calls |-> <<>>]

\* if opts: auto_conv = generate_auto_convert(opts) else: auto_conv = auto_convert
auto_conv(o, auto_convert) ==
    IF Truthy(o)
    THEN [val   |-> generate_auto_convert(o),
          calls |-> << [fn |-> "generate_auto_convert", args |-> <<o>>,
                        ret |-> generate_auto_convert(o)] >>]
    ELSE [val |-> auto_convert, calls |-> <<>>]

-----------------------------------------------------------------------------
(* cog_slash *)

\* cog_slash defaulting a missing guild_ids to an empty list.
cog_slash_default_guilds(a) ==
    [kind         |-> "cog_slash",
     name         |-> a.name,
     description  |-> a.description,
     auto_convert |-> a.auto_convert,
     guild_ids    |-> PyOr(a.guild_ids, List(<<>>)),
     options      |-> a.options]

\* cog_slash(**a): returns wrapper; its free variables are the arguments.
cog_slash(a) ==
    [kind         |-> "cog_slash",
     name         |-> a.name,
     description  |-> a.description,
     auto_convert |-> a.auto_convert,
     guild_ids    |-> a.guild_ids,
     options      |-> a.options]

\* wrapper of cog_slash that never falls back to the coroutine's name.
cog_slash_wrapper_no_default_name(cl, cmd) ==
    LET d  == desc(cl.description, cmd)
        o  == opts(cl.options, cmd, d)
        ac == auto_conv(o.val, cl.auto_convert)
        _cmd == [func            |-> cmd,
                 description     |-> d,
                 auto_convert    |-> ac.val,
                 guild_ids       |-> cl.guild_ids,
                 api_options     |-> o.val,
                 has_subcommands |-> FALSE]
    IN  [obj     |-> [cls  |-> "CogCommandObject",
                      name |-> cl.name,
                      cmd  |-> _cmd],
         calls   |-> o.calls \o ac.calls,
         closure |-> cl]

\* wrapper(cmd) of cog_slash: the descriptor, the helper calls made, and the
\* closure cells as the call leaves them.
cog_slash_wrapper(cl, cmd) ==
    LET d  == desc(cl.description, cmd)
        o  == opts(cl.options, cmd, d)
        ac == auto_conv(o.val, cl.auto_convert)
        _cmd == [func            |-> cmd,
                 description     |-> d,
                 auto_convert    |-> ac.val,
                 guild_ids       |-> cl.guild_ids,
                 api_options     |-> o.val,
                 has_subcommands |-> FALSE]
    IN  [obj     |-> [cls  |-> "CogCommandObject",
                      name |-> PyOr(cl.name, cmd.name),
                      cmd  |-> _cmd],
         calls   |-> o.calls \o ac.calls,
         closure |-> cl]

-----------------------------------------------------------------------------
(* cog_subcommand *)

\* cog_subcommand preferring the short alias of the base description.
cog_subcommand_alias_first(a) ==
    [kind             |-> "cog_subcommand",
     base             |-> a.base,
     subcommand_group |-> a.subcommand_group,
     name             |-> a.name,
     description      |-> a.description,
     base_description |-> PyOr(a.base_desc, a.base_description),
     subcommand_group_description |->
         PyOr(a.subcommand_group_description, a.sub_group_desc),
     auto_convert     |-> a.auto_convert,
     guild_ids        |-> a.guild_ids,
     options          |-> a.options]

\* cog_subcommand(**a): resolves the two alias pairs once, then returns
\* wrapper; base_desc and sub_group_desc are not free variables of wrapper.
cog_subcommand(a) ==
    [kind             |-> "cog_subcommand",
     base             |-> a.base,
     subcommand_group |-> a.subcommand_group,
     name             |-> a.name,
     description      |-> a.description,
     base_description |-> PyOr(a.base_description, a.base_desc),
     subcommand_group_description |->
         PyOr(a.subcommand_group_description, a.sub_group_desc),
     auto_convert     |-> a.auto_convert,
     guild_ids        |-> a.guild_ids,
     options          |-> a.options]

\* wrapper of cog_subcommand passing name and base in each other's position.
cog_subcommand_wrapper_swapped(cl, cmd) ==
    LET d  == desc(cl.description, cmd)
        o  == opts(cl.options, cmd, d)
        ac == auto_conv(o.val, cl.auto_convert)
        _sub == [func           |-> cmd,
                 name           |-> PyOr(cl.name, cmd.name),
                 description    |-> d,
                 base_desc      |-> PyOr(cl.base_description, NoDescriptionDot),
                 sub_group_desc |-> PyOr(cl.subcommand_group_description,
                                         NoDescriptionDot),
                 auto_convert   |-> ac.val,
                 guild_ids      |-> cl.guild_ids,
                 api_options    |-> o.val]
    IN  [obj     |-> [cls              |-> "CogSubcommandObject",
                      sub              |-> _sub,
                      base             |-> PyOr(cl.name, cmd.name),
                      name             |-> cl.base,
                      subcommand_group |-> cl.subcommand_group],
         calls   |-> o.calls \o ac.calls,
         closure |-> cl]

\* wrapper of cog_subcommand that rebinds description to the resolved one
\* (nonlocal), so that the first docstring sticks.
cog_subcommand_wrapper_sticky(cl, cmd) ==
    LET d  == desc(cl.description, cmd)
        o  == opts(cl.options, cmd, d)
        ac == auto_conv(o.val, cl.auto_convert)
        _sub == [func           |-> cmd,
                 name           |-> PyOr(cl.name, cmd.name),
                 description    |-> d,
                 base_desc      |-> PyOr(cl.base_description, NoDescriptionDot),
                 sub_group_desc |-> PyOr(cl.subcommand_group_description,
                                         NoDescriptionDot),
                 auto_convert   |-> ac.val,
                 guild_ids      |-> cl.guild_ids,
                 api_options    |-> o.val]
    IN  [obj     |-> [cls              |-> "CogSubcommandObject",
                      sub              |-> _sub,
                      base             |-> cl.base,
                      name             |-> PyOr(cl.name, cmd.name),
                      subcommand_group |-> cl.subcommand_group],
         calls   |-> o.calls \o ac.calls,
         closure |-> [cl EXCEPT !.description = d]]

\* wrapper(cmd) of cog_subcommand.
cog_subcommand_wrapper(cl, cmd) ==
    LET d  == desc(cl.description, cmd)
        o  == opts(cl.options, cmd, d)
        ac == auto_conv(o.val, cl.auto_convert)
        _sub == [func           |-> cmd,
                 name           |-> PyOr(cl.name, cmd.name),
                 description    |-> d,
                 base_desc      |-> PyOr(cl.base_description, NoDescriptionDot),
                 sub_group_desc |-> PyOr(cl.subcommand_group_description,
                                         NoDescriptionDot),
                 auto_convert   |-> ac.val,
                 guild_ids      |-> cl.guild_ids,
                 api_options    |-> o.val]
    IN  [obj     |-> [cls              |-> "CogSubcommandObject",
                      sub              |-> _sub,
                      base             |-> cl.base,
                      name             |-> PyOr(cl.name, cmd.name),
                      subcommand_group |-> cl.subcommand_group],
         calls   |-> o.calls \o ac.calls,
         closure |-> cl]

-----------------------------------------------------------------------------
(* Inputs *)

\* Coroutines the wrappers are applied to: __name__, __doc__ and the command
\* parameters of the signature.
Funcs ==
    { [name |-> Str(<<"p">>), doc |-> None, params |-> <<>>],
      [name |-> Str(<<"s">>), doc |-> Str(<<"a">>), params |-> <<"t">>],
      [name |-> Str(<<"e">>), doc |-> Str(<<>>), params |-> <<"t">>],
      [name |-> Str(<<"b">>), doc |-> Str(<<" ", " ">>), params |-> <<>>],
      [name |-> Str(<<"i">>),
       doc  |-> Str(<<"\n", " ", " ", "a", "\n", " ", " ", " ", "b", "\n", " ", " ">>),
       params |-> <<"t", "u">>] }

Names == { None, Str(<<>>), Str(<<"n">>) }
Descriptions == { None, Str(<<>>), Str(<<"d">>) }
AutoConverts == { None, Dict({ <<"k", "INTEGER">> }) }
GuildIds == { None, List(<<"g1">>) }
OptionLists ==
    { None, List(<<>>),
      List(<< [name |-> "x", description |-> Str(<<"o">>),
               type |-> "INTEGER", required |-> FALSE] >>) }
Bases == { Str(<<"b">>), Str(<<"c">>) }
Groups == { None, Str(<<"g">>) }
LongDescs == { None, Str(<<>>), Str(<<"L">>) }
ShortDescs == { None, Str(<<>>), Str(<<"S">>) }

\* Keyword arguments of cog_slash: every combination.
SlashArgs ==
    [name : Names, description : Descriptions, auto_convert : AutoConverts,
     guild_ids : GuildIds, options : OptionLists]

\* The arguments both factories share, all omitted or all supplied.
CommonOmitted ==
    [name |-> None, description |-> None, auto_convert |-> None,
     guild_ids |-> None, options |-> None]
CommonSupplied ==
    [name |-> Str(<<"n">>), description |-> Str(<<"d">>),
     auto_convert |-> Dict({ <<"k", "INTEGER">> }),
     guild_ids |-> List(<<"g1">>), options |-> List(<<>>)]

Merge(r1, r2) ==
    [ k \in DOMAIN r1 \cup DOMAIN r2 |-> IF k \in DOMAIN r1 THEN r1[k] ELSE r2[k] ]

SubOnlyArgs ==
    [base : Bases, subcommand_group : Groups,
     base_description : LongDescs, base_desc : ShortDescs,
     subcommand_group_description : LongDescs, sub_group_desc : ShortDescs]

\* Keyword arguments of cog_subcommand: every combination of the arguments
\* that are its own with the shared ones all omitted or all supplied, and
\* every combination of the shared ones with each description of base and
\* group omitted or supplied.
SubArgs ==
    { Merge(s, c) : s \in SubOnlyArgs, c \in { CommonOmitted, CommonSupplied } }
    \cup
    { Merge(s, c) :
        s \in [base : Bases, subcommand_group : Groups,
               base_description : { None, Str(<<"L">>) },
               base_desc : { None, Str(<<"S">>) },
               subcommand_group_description : { None, Str(<<"L">>) },
               sub_group_desc : { None, Str(<<"S">>) }],
        c \in SlashArgs }

-----------------------------------------------------------------------------
(* The program *)

NoFactory == [kind |-> "none"]

Init ==
    /\ args = NoFactory
    /\ closure = NoFactory
    /\ results = <<>>

\* @cog_ext.cog_slash(...)
CallCogSlash ==
    /\ closure.kind = "none"
    /\ \E a \in SlashArgs :
        /\ args' = a
        /\ closure' = cog_slash(a)
    /\ UNCHANGED results

\* @cog_ext.cog_subcommand(...)
CallCogSubcommand ==
    /\ closure.kind = "none"
    /\ \E a \in SubArgs :
        /\ args' = a
        /\ closure' = cog_subcommand(a)
    /\ UNCHANGED results

\* The wrapper returned by cog_slash is applied to a coroutine.
ApplySlashWrapper ==
    /\ closure.kind = "cog_slash"
    /\ Len(results) < MaxApps
    /\ \E cmd \in Funcs :
        LET r == cog_slash_wrapper(closure, cmd)
        IN  /\ results' = Append(results, [cmd |-> cmd, obj |-> r.obj, calls |-> r.calls])
            /\ closure' = r.closure
    /\ UNCHANGED args

\* The wrapper returned by cog_subcommand is applied to a coroutine.
ApplySubcommandWrapper ==
    /\ closure.kind = "cog_subcommand"
    /\ Len(results) < MaxApps
    /\ \E cmd \in Funcs :
        LET r == cog_subcommand_wrapper(closure, cmd)
        IN  /\ results' = Append(results, [cmd |-> cmd, obj |-> r.obj, calls |-> r.calls])
            /\ closure' = r.closure
    /\ UNCHANGED args

Next ==
    \/ CallCogSlash
    \/ CallCogSubcommand
    \/ ApplySlashWrapper
    \/ ApplySubcommandWrapper

Spec == Init /\ [][Next]_vars

-----------------------------------------------------------------------------
(* Properties *)

IsSlash == closure.kind = "cog_slash"
IsSub == closure.kind = "cog_subcommand"
Apps == 1..Len(results)

\* The descriptor's record: _cmd of a CogCommandObject, _sub of a
\* CogSubcommandObject.
Record(obj) == IF obj.cls = "CogCommandObject" THEN obj.cmd ELSE obj.sub

\* A string argument that was given and is not empty.
Supplied(v) == v /= None /\ v /= Str(<<>>)

FirstSupplied(a, b, c) == IF Supplied(a) THEN a ELSE IF Supplied(b) THEN b ELSE c

CallsTo(r, fn) == { k \in 1..Len(r.calls) : r.calls[k].fn = fn }

\* C1, as stated: the description is the supplied description when it is
\* non-empty, otherwise the function's docstring (__doc__) when that is
\* non-empty, otherwise "No description"; never None or empty.
C1_DescriptionIsRawDocstring ==
    \A i \in Apps :
        LET r == results[i]
        IN  /\ Record(r.obj).description =
                  FirstSupplied(args.description, r.cmd.doc, NoDescription)
            /\ Supplied(Record(r.obj).description)

\* C1, amended: the description is the supplied description when it is
\* non-empty, otherwise the docstring as inspect.getdoc returns it (margin
\* removed, first line left-stripped, leading and trailing empty lines
\* dropped) when that is non-empty, otherwise "No description"; never None
\* or empty.
C1_DescriptionFallback ==
    \A i \in Apps :
        LET r == results[i]
        IN  /\ Record(r.obj).description =
                  FirstSupplied(args.description, getdoc(r.cmd), NoDescription)
            /\ Supplied(Record(r.obj).description)

\* A coroutine with a docstring of blanks got the placeholder, and one with
\* an indented docstring got the cleaned text, with no description supplied.
C1_Witness ==
    /\ IsSlash \/ IsSub
    /\ ~Supplied(args.description)
    /\ \E i, j \in Apps :
        /\ Supplied(results[i].cmd.doc)
        /\ Record(results[i].obj).description = NoDescription
        /\ Record(results[j].obj).description = Str(<<"a", "\n", " ", "b">>)

\* C2: in cog_subcommand each of base_desc / sub_group_desc is the long-form
\* argument when non-empty, otherwise the short alias when non-empty,
\* otherwise "No Description."; the long form wins and the pairs are
\* resolved independently.
C2_AliasPairs ==
    IsSub =>
        \A i \in Apps :
            LET rec == Record(results[i].obj)
            IN  /\ rec.base_desc =
                      FirstSupplied(args.base_description, args.base_desc,
                                    NoDescriptionDot)
                /\ rec.sub_group_desc =
                      FirstSupplied(args.subcommand_group_description,
                                    args.sub_group_desc, NoDescriptionDot)

\* Both members of the base pair supplied and the long one stored, while the
\* group pair had only its alias supplied and the alias stored.
C2_Witness ==
    /\ IsSub
    /\ Supplied(args.base_description) /\ Supplied(args.base_desc)
    /\ ~Supplied(args.subcommand_group_description)
    /\ Supplied(args.sub_group_desc)
    /\ \E i \in Apps :
        /\ Record(results[i].obj).base_desc = args.base_description
        /\ Record(results[i].obj).sub_group_desc = args.sub_group_desc

\* C3: the descriptor is constructed with the supplied name when non-empty
\* and otherwise with the coroutine's __name__; in cog_subcommand the name
\* stored in the record equals the name passed to the descriptor.
C3_NameDefault ==
    \A i \in Apps :
        LET r == results[i]
        IN  /\ r.obj.name = IF Supplied(args.name) THEN args.name ELSE r.cmd.name
            /\ IsSub => Record(r.obj).name = r.obj.name

\* Two coroutines decorated by the same wrapper without a usable name got
\* their own names.
C3_Witness ==
    /\ IsSlash \/ IsSub
    /\ ~Supplied(args.name)
    /\ \E i, j \in Apps :
        /\ results[i].obj.name = results[i].cmd.name
        /\ results[j].obj.name = results[j].cmd.name
        /\ results[i].obj.name /= results[j].obj.name

\* C4: api_options is the supplied options list unchanged whenever options
\* is not None (the empty list included) and generate_options is then not
\* called; when options is None it is the result of the one call
\* generate_options(cmd, resolved description).
C4_ApiOptions ==
    \A i \in Apps :
        LET r == results[i]
            rec == Record(r.obj)
            g == CallsTo(r, "generate_options")
        IN  IF args.options /= None
            THEN rec.api_options = args.options /\ g = {}
            ELSE /\ Cardinality(g) = 1
                 /\ \A k \in g :
                     /\ r.calls[k].args = <<r.cmd, rec.description>>
                     /\ rec.api_options = r.calls[k].ret

\* An empty options list was kept for a coroutine that has parameters, and
\* options were generated with a description the caller never supplied.
C4_Witness ==
    \E i \in Apps :
        LET r == results[i]
        IN  \/ /\ args.options = List(<<>>)
               /\ r.cmd.params /= <<>>
               /\ Record(r.obj).api_options = List(<<>>)
            \/ /\ args.options = None
               /\ args.description = None
               /\ Record(r.obj).api_options.val /= <<>>
               /\ \E k \in CallsTo(r, "generate_options") :
                     r.calls[k].args[2] /= args.description

\* C5: whenever the resolved option list is non-empty, auto_convert is the
\* map generate_auto_convert made from that list; a supplied auto_convert
\* dictionary is discarded.
C5_AutoConvert ==
    \A i \in Apps :
        LET r == results[i]
            rec == Record(r.obj)
            g == CallsTo(r, "generate_auto_convert")
        IN  rec.api_options.val /= <<>> =>
                /\ Cardinality(g) = 1
                /\ \A k \in g :
                    /\ r.calls[k].args = <<rec.api_options>>
                    /\ rec.auto_convert = r.calls[k].ret

\* A dictionary was supplied and the generated map was stored instead.
C5_Witness ==
    /\ IsSlash \/ IsSub
    /\ args.auto_convert /= None
    /\ \E i \in Apps :
        /\ Record(results[i].obj).api_options.val /= <<>>
        /\ Record(results[i].obj).auto_convert /= args.auto_convert

\* C6: guild_ids of the record is exactly the guild_ids argument (None when
\* omitted), whatever the other arguments and the coroutine are.
C6_GuildIds ==
    \A i \in Apps : Record(results[i].obj).guild_ids = args.guild_ids

\* guild_ids was omitted and None was stored.
C6_Witness ==
    /\ IsSlash \/ IsSub
    /\ args.guild_ids = None
    /\ \E i \in Apps : Record(results[i].obj).guild_ids = None

\* C7: cog_subcommand passes base and subcommand_group to the descriptor
\* unchanged; an omitted subcommand_group arrives as None whether or not a
\* group description was supplied.
C7_BaseAndGroup ==
    IsSub =>
        \A i \in Apps :
            /\ results[i].obj.base = args.base
            /\ results[i].obj.subcommand_group = args.subcommand_group

\* A group description was supplied without a group, and the descriptor got
\* None as its group.
C7_Witness ==
    /\ IsSub
    /\ args.subcommand_group = None
    /\ Supplied(args.subcommand_group_description)
    /\ \E i \in Apps :
        /\ results[i].obj.subcommand_group = None
        /\ results[i].obj.base = args.base

\* A wrapper freshly returned by the factory, applied once.
Fresh(cmd) ==
    IF IsSlash THEN cog_slash_wrapper(cog_slash(args), cmd).obj
    ELSE cog_subcommand_wrapper(cog_subcommand(args), cmd).obj

\* C8: applying a wrapper changes none of its state: every descriptor is the
\* one a fresh wrapper of the same factory call gives for that function,
\* whatever was decorated before, and the base and group descriptions are
\* the same in every descriptor of one wrapper.
C8_Stateless ==
    ~(closure.kind = "none") =>
        /\ \A i \in Apps : results[i].obj = Fresh(results[i].cmd)
        /\ \A i, j \in Apps :
            IsSub =>
                /\ Record(results[i].obj).base_desc = Record(results[j].obj).base_desc
                /\ Record(results[i].obj).sub_group_desc =
                      Record(results[j].obj).sub_group_desc

\* One cog_subcommand wrapper decorated two coroutines: name and description
\* were taken from each coroutine, the base description from the factory.
C8_Witness ==
    /\ IsSub
    /\ Supplied(args.base_desc)
    /\ \E i, j \in Apps :
        /\ i < j
        /\ results[i].obj.name /= results[j].obj.name
        /\ Record(results[i].obj).description /= Record(results[j].obj).description
        /\ Record(results[j].obj).description = getdoc(results[j].cmd)
        /\ Record(results[i].obj).base_desc = Record(results[j].obj).base_desc

====
